---- MODULE Spec2Model ----
(***************************************************************************)
(* Ethereal: the transposition table and pawn table of                     *)
(* src/src/transposition.c and the move generator with its legality        *)
(* filter of src/unnamed/part_000, as state machines.                      *)
(*                                                                         *)
(* A 64-bit hash is a record of three limbs, hi (bits 63..48), mid (bits   *)
(* 47..24) and lo (bits 23..0), so that every limb is a small integer.     *)
(* A bitboard is the set of the squares 0..63 whose bit is set.            *)
(***************************************************************************)
EXTENDS Integers, Sequences, FiniteSets, TLC

(* ------------------------------ bounds -------------------------------- *)

\* Entries per bucket; transposition.h sets BUCKET_SIZE, and the operations
\* below are written for any value.
BUCKET_SIZE == 2
\* Largest size, in megabytes, of the sizing runs (SpecSize).
MaxMegabytes == 600
\* updateTranspositionTable steps between two resets of the table.
MaxUpdates == 1
\* Largest top-16-bit prefix and largest low part of the pawn hashes.
MaxPawnPrefix == 1
MaxPawnLow == 1

(* ---------------------------- constants ------------------------------- *)

\* The generation counter wraps at this value.
GENERATION_CYCLE == 64
\* keySize before the scaling loop.
INITIAL_KEYSIZE == 16
\* log2 of sizeof(TransBucket).
BUCKET_SHIFT == 5
\* log2 of the bytes of a megabyte.
MB_SHIFT == 20
\* A pointer that points at no entry.
NULL == 0

Pow2(n) == 2 ^ n

(* ------------------------------ hashes -------------------------------- *)

\* hash >> 48
Hash16(hash) == hash.hi

\* hash & (numBuckets - 1), numBuckets = 2^keySize
BucketIndex(hash, k) ==
    IF k <= 24 THEN hash.lo % Pow2(k)
    ELSE hash.lo + Pow2(24) * (hash.mid % Pow2(k - 24))

ZeroHash == [hi |-> 0, mid |-> 0, lo |-> 0]

\* The hashes given to the table: one more tag than a bucket has slots, the
\* zero tag among them, all addressing the same bucket.
Hashes == {[hi |-> t, mid |-> 0, lo |-> 0] : t \in 0..BUCKET_SIZE}

\* The arguments of a store besides the hash (type: PVNODE, CUTNODE or ALLNODE,
\* never 0; depth and value within the asserted ranges).
Payloads ==
    {[depth |-> 0, type |-> 1, value |-> 25, bestMove |-> 1234],
     [depth |-> 1, type |-> 2, value |-> -300, bestMove |-> 77]}

\* The sizes, in megabytes, the table is re-initialised with between operations.
TableSizes == {0, 2}

(* ------------------------ transposition table ------------------------- *)

VARIABLES
    buckets,      \* Table.buckets, restricted to the buckets the hashes address
    keySize,      \* Table.keySize; Table.numBuckets is 2^keySize
    generation,   \* Table.generation
    used,         \* Table.used
    touched,      \* history: was the entry stored or probed since the last update
    updates,      \* history: update steps since the table was last reset
    lastOp,       \* the last table operation, its arguments and its result
    pentries,     \* PTable.entries, restricted to the slots the pawn hashes address
    pLast,        \* the last pawn table operation, its arguments and its result
    curBoard,     \* board: the Board handed to getAllMoves
    curTurn,      \* turn: the side to move
    moveList,     \* moves: the candidate list
    indexOut,     \* *index
    fixedList,    \* fixed: the list validateCheck returns
    loopI,        \* i: the loop counter of validateCheck
    validOut,     \* valid: the result of validateMove for the move applied
    pc,           \* where getAllMoves stands
    atEntry,      \* history: the board and the candidate list at entry of validateCheck
    callLog       \* history: the calls made on the board, in order

tvars == <<buckets, keySize, generation, used, touched, updates, lastOp>>
pvars == <<pentries, pLast>>
mvars == <<curBoard, curTurn, moveList, indexOut, fixedList, loopI, validOut, pc, atEntry, callLog>>

numBuckets == Pow2(keySize)

\* The loop of initalizeTranspositionTable: keySize++ while
\* 1 << (keySize + 5) <= megabytes << 20.
RECURSIVE ScaleLoop(_, _)
ScaleLoop(k, megabytes) ==
    IF Pow2(k + BUCKET_SHIFT) <= megabytes * Pow2(MB_SHIFT)
    THEN ScaleLoop(k + 1, megabytes) ELSE k

\* The scaling without the decrement that follows the loop.
ScaleKeySizeNoDecrement(megabytes) == ScaleLoop(INITIAL_KEYSIZE, megabytes)

ScaleKeySize(megabytes) == ScaleLoop(INITIAL_KEYSIZE, megabytes) - 1

\* The bucket indices the modelled hashes can address; every other bucket of the
\* table stays as calloc or clear left it.
BucketIds == {BucketIndex(h, ScaleKeySize(mb)) : h \in Hashes, mb \in 0..MaxMegabytes}

Slots == 1..BUCKET_SIZE

\* An entry as calloc and clearTranspositionTable leave it.
ZeroEntry == [value |-> 0, depth |-> 0, age |-> 0, type |-> 0, bestMove |-> 0, hash16 |-> 0]

ZeroBuckets == [b \in BucketIds |-> [s \in Slots |-> ZeroEntry]]
NoneTouched == [b \in BucketIds |-> [s \in Slots |-> FALSE]]

initalizeTranspositionTable(megabytes) ==
    /\ keySize' = ScaleKeySize(megabytes)
    /\ buckets' = ZeroBuckets
    /\ generation' = 0
    /\ used' = 0
    /\ touched' = NoneTouched
    /\ updates' = 0
    /\ lastOp' = [op |-> "init", megabytes |-> megabytes]
    /\ UNCHANGED <<pvars, mvars>>

NextGeneration(g) == (g + 1) % GENERATION_CYCLE

\* n applications of the step g -> (g + 1) % 64.
UpdateTimes(g, n) == IF n = 1 THEN NextGeneration(g) ELSE (g + n) % GENERATION_CYCLE

\* n consecutive calls of updateTranspositionTable: n new search roots during
\* which none of the modelled buckets is addressed.
updateTranspositionTable(n) ==
    /\ updates < MaxUpdates
    /\ updates' = updates + 1
    /\ generation' = UpdateTimes(generation, n)
    /\ touched' = NoneTouched
    /\ lastOp' = [op |-> "update", n |-> n]
    /\ UNCHANGED <<buckets, keySize, used, pvars, mvars>>

clearTranspositionTable ==
    /\ generation' = 0
    /\ used' = 0
    /\ buckets' = [b \in BucketIds |-> [s \in Slots |-> ZeroEntry]]
    /\ touched' = NoneTouched
    /\ updates' = 0
    /\ lastOp' = [op |-> "clear"]
    /\ UNCHANGED <<keySize, pvars, mvars>>

\* The scan of getTranspositionEntry: the first slot whose hash16 is the tag.
RECURSIVE ProbeScan(_, _, _)
ProbeScan(entries, hash16, i) ==
    IF i > BUCKET_SIZE THEN NULL
    ELSE IF entries[i].hash16 = hash16 THEN i
    ELSE ProbeScan(entries, hash16, i + 1)

\* The build without TEXEL.
getTranspositionEntry(hash) ==
    LET b == BucketIndex(hash, keySize)
        i == ProbeScan(buckets[b], Hash16(hash), 1)
    IN  /\ buckets' = IF i = NULL THEN buckets
                      ELSE [buckets EXCEPT ![b][i].age = generation]
        /\ touched' = IF i = NULL THEN touched ELSE [touched EXCEPT ![b][i] = TRUE]
        /\ lastOp' = [op |-> "probe", hash |-> hash, slot |-> i,
                      afterStore |-> lastOp.op = "store" /\ lastOp.hash = hash]
        /\ UNCHANGED <<keySize, generation, used, updates, pvars, mvars>>

\* oldOption taken to be the deepest old entry instead of the shallowest.
OldOptionStepDeepest(entries, gen, i, oldOption) ==
    IF entries[i].age # gen /\ (oldOption = NULL \/ entries[oldOption].depth < entries[i].depth)
    THEN i ELSE oldOption

\* One iteration's update of oldOption.
OldOptionStep(entries, gen, i, oldOption) ==
    IF entries[i].age # gen /\ (oldOption = NULL \/ entries[oldOption].depth >= entries[i].depth)
    THEN i ELSE oldOption

\* One iteration's update of lowDraftOption, oldOption already updated.
LowDraftStep(entries, i, oldOption, lowDraftOption) ==
    IF oldOption = NULL /\ (lowDraftOption = NULL \/ entries[lowDraftOption].depth >= entries[i].depth)
    THEN i ELSE lowDraftOption

\* The scan of storeTranspositionEntry, from slot i on: the slot to replace and
\* the branch that chose it.
RECURSIVE StoreScan(_, _, _, _, _, _)
StoreScan(entries, hash16, gen, i, oldOption, lowDraftOption) ==
    IF i > BUCKET_SIZE
    THEN IF oldOption # NULL THEN [slot |-> oldOption, how |-> "old"]
         ELSE [slot |-> lowDraftOption, how |-> "lowDraft"]
    ELSE IF entries[i].type = 0 THEN [slot |-> i, how |-> "unused"]
    ELSE IF entries[i].hash16 = hash16 THEN [slot |-> i, how |-> "same"]
    ELSE LET old == OldOptionStep(entries, gen, i, oldOption)
             low == LowDraftStep(entries, i, old, lowDraftOption)
         IN  StoreScan(entries, hash16, gen, i + 1, old, low)

\* The scan without the test for an entry with the same hash key.
RECURSIVE StoreScanNoTag(_, _, _, _, _, _)
StoreScanNoTag(entries, hash16, gen, i, oldOption, lowDraftOption) ==
    IF i > BUCKET_SIZE
    THEN IF oldOption # NULL THEN [slot |-> oldOption, how |-> "old"]
         ELSE [slot |-> lowDraftOption, how |-> "lowDraft"]
    ELSE IF entries[i].type = 0 THEN [slot |-> i, how |-> "unused"]
    ELSE LET old == OldOptionStep(entries, gen, i, oldOption)
             low == LowDraftStep(entries, i, old, lowDraftOption)
         IN  StoreScanNoTag(entries, hash16, gen, i + 1, old, low)

FindReplaceNoTag(entries, hash16, gen) == StoreScanNoTag(entries, hash16, gen, 1, NULL, NULL)

FindReplace(entries, hash16, gen) == StoreScan(entries, hash16, gen, 1, NULL, NULL)

\* The Replace: label with the bestMove left as it was.
ReplacedKeepMove(entry, args, gen, hash16) ==
    [value |-> args.value, depth |-> args.depth, age |-> gen, type |-> args.type,
     bestMove |-> entry.bestMove, hash16 |-> hash16]

\* The Replace: label.
Replaced(entry, args, gen, hash16) ==
    [value |-> args.value, depth |-> args.depth, age |-> gen, type |-> args.type,
     bestMove |-> args.bestMove, hash16 |-> hash16]

storeTranspositionEntry(hash, args) ==
    LET b == BucketIndex(hash, keySize)
        r == FindReplace(buckets[b], Hash16(hash), generation)
    IN  /\ used' = IF r.how = "unused" THEN used + 1 ELSE used
        /\ buckets' = [buckets EXCEPT ![b][r.slot] =
                          Replaced(buckets[b][r.slot], args, generation, Hash16(hash))]
        /\ touched' = [touched EXCEPT ![b][r.slot] = TRUE]
        /\ lastOp' = [op |-> "store", hash |-> hash, args |-> args, how |-> r.how]
        /\ UNCHANGED <<keySize, generation, updates, pvars, mvars>>

\* The table as initalizeTranspositionTable leaves it.
TableInit ==
    /\ keySize = ScaleKeySize(1)
    /\ buckets = ZeroBuckets
    /\ generation = 0
    /\ used = 0
    /\ touched = NoneTouched
    /\ updates = 0
    /\ lastOp = [op |-> "init", megabytes |-> 1]

(* ----------------------------- pawn table ----------------------------- *)

PawnHashes ==
    {[hi |-> t, mid |-> 0, lo |-> l] : t \in 0..MaxPawnPrefix, l \in 0..MaxPawnLow}

\* phash >> 48
PawnIndex(phash) == Hash16(phash)

PawnSlots == {PawnIndex(p) : p \in PawnHashes}

\* The passed-pawn bitboards and the scores given to storePawnEntry.
PassedBoards == {{}, {28, 35}}
MgScores == {-7, 12}
EgScores == {0, 30}

\* A pawn entry as calloc leaves it.
ZeroPawnEntry == [phash |-> ZeroHash, passed |-> {}, mg |-> 0, eg |-> 0]

\* A hit decided on the index bits alone.
PawnHitPrefix(pentry, phash) == Hash16(pentry.phash) = Hash16(phash)

\* pentry->phash == phash
PawnHit(pentry, phash) == pentry.phash = phash

getPawnEntry(phash) ==
    /\ pLast' = [op |-> "probe", phash |-> phash,
                 found |-> PawnHit(pentries[PawnIndex(phash)], phash)]
    /\ UNCHANGED <<pentries, tvars, mvars>>

storePawnEntry(phash, passed, mg, eg) ==
    /\ pentries' = [pentries EXCEPT ![PawnIndex(phash)] =
                       [phash |-> phash, passed |-> passed, mg |-> mg, eg |-> eg]]
    /\ pLast' = [op |-> "store", phash |-> phash, passed |-> passed, mg |-> mg, eg |-> eg]
    /\ UNCHANGED <<tvars, mvars>>

\* The pawn table as initalizePawnTable leaves it.
PawnInit ==
    /\ pentries = [s \in PawnSlots |-> ZeroPawnEntry]
    /\ pLast = [op |-> "init"]

(* --------------------------- board and moves -------------------------- *)

\* Largest number of pieces on the board besides the two kings.
MaxExtra == 3

WHITE == 0
BLACK == 1

Squares == 0..63
File(s) == s % 8
Rank(s) == s \div 8
Abs(x) == IF x < 0 THEN -x ELSE x

FILE_A == {s \in Squares : File(s) = 0}
FILE_H == {s \in Squares : File(s) = 7}
RANK_1 == {s \in Squares : Rank(s) = 0}
RANK_3 == {s \in Squares : Rank(s) = 2}
RANK_6 == {s \in Squares : Rank(s) = 5}
RANK_8 == {s \in Squares : Rank(s) = 7}

PieceKinds == {"PAWN", "KNIGHT", "BISHOP", "ROOK", "QUEEN", "KING"}

\* bb << n and bb >> n on 64 bits.
ShiftUp(bb, n) == {s + n : s \in bb} \cap Squares
ShiftDown(bb, n) == {s - n : s \in bb} \cap Squares

\* The index of the lowest set bit.
getLSB(bb) == CHOOSE s \in bb : \A t \in bb : s <= t

\* The squares of a bitboard in the order getLSB takes them.
BitOrder(bb) ==
    [k \in 1..Cardinality(bb) |-> CHOOSE s \in bb : Cardinality({t \in bb : t < s}) = k - 1]

\* The piece kind on a square, or EMPTY.
getSquare(sq, board) ==
    IF \E k \in PieceKinds : sq \in board.Pieces[k]
    THEN CHOOSE k \in PieceKinds : sq \in board.Pieces[k]
    ELSE "EMPTY"

\* KingMap[sq], KnightMap[sq]: the squares a king or a knight on sq attacks.
KingTable ==
    [sq \in Squares |->
        {t \in Squares : t # sq /\ Abs(File(t) - File(sq)) <= 1 /\ Abs(Rank(t) - Rank(sq)) <= 1}]
KnightTable ==
    [sq \in Squares |->
        {t \in Squares : {Abs(File(t) - File(sq)), Abs(Rank(t) - Rank(sq))} = {1, 2}}]
KingMap(sq) == KingTable[sq]
KnightMap(sq) == KnightTable[sq]

\* The squares strictly between two squares of one rank, file or diagonal.
Between ==
    [s \in Squares |-> [t \in Squares |->
        {u \in Squares :
            /\ u # s /\ u # t
            /\ (File(u) - File(s)) * (Rank(t) - Rank(s)) = (Rank(u) - Rank(s)) * (File(t) - File(s))
            /\ Abs(File(u) - File(s)) + Abs(File(t) - File(u)) = Abs(File(t) - File(s))
            /\ Abs(Rank(u) - Rank(s)) + Abs(Rank(t) - Rank(u)) = Abs(Rank(t) - Rank(s))}]]

\* The other squares of the rank and file, and of the diagonals, of a square.
RookLines ==
    [sq \in Squares |-> {t \in Squares : t # sq /\ (File(t) = File(sq) \/ Rank(t) = Rank(sq))}]
BishopLines ==
    [sq \in Squares |->
        {t \in Squares : t # sq /\ Abs(File(t) - File(sq)) = Abs(Rank(t) - Rank(sq))}]

\* MoveDatabaseRook[sq][(blockers * magic) >> shift]: the squares a rook on sq
\* reaches along its rank and file, the first blocker of each ray included.
RookAttacks(sq, occupied) ==
    {t \in RookLines[sq] : Between[sq][t] \cap occupied = {}}

\* MoveDatabaseBishop[sq][(blockers * magic) >> shift].
BishopAttacks(sq, occupied) ==
    {t \in BishopLines[sq] : Between[sq][t] \cap occupied = {}}

\* The squares between king and rook on each side.
LeftCastleBoards(turn) == IF turn = WHITE THEN {1, 2, 3} ELSE {57, 58, 59}
RightCastleBoards(turn) == IF turn = WHITE THEN {5, 6} ELSE {61, 62}

Occupied(board) == board.Colors[0] \cup board.Colors[1]

\* A move that malloc returned and only Type was written to.
CastleMove(type) ==
    [Start |-> "unset", End |-> "unset", CapturedType |-> "unset",
     MovedType |-> "unset", Type |-> type]

\* The moves of one piece to the squares of attackable, lowest square first.
MovesTo(board, bit, attackable, kind, type) ==
    [k \in 1..Cardinality(attackable) |->
        [Start |-> bit, End |-> BitOrder(attackable)[k],
         CapturedType |-> getSquare(BitOrder(attackable)[k], board),
         MovedType |-> kind, Type |-> type]]

\* The move lists of the pieces of one kind, from list k on, one after the other.
RECURSIVE Flatten(_, _)
Flatten(lists, k) ==
    IF k > Len(lists) THEN <<>> ELSE lists[k] \o Flatten(lists, k + 1)

getKnightMoves(board, turn) ==
    LET friendly == board.Colors[turn]
        one(bit) == MovesTo(board, bit, KnightMap(bit) \ friendly, "KNIGHT", "NormalMove")
    pieces == BitOrder(board.Pieces["KNIGHT"] \cap friendly)
    IN  Flatten([k \in 1..Len(pieces) |-> one(pieces[k])], 1)

\* The Type of a king move.
KingMoveType(board, turn) ==
    IF board.ValidCastles[turn][0] # 0
    THEN IF board.ValidCastles[turn][1] # 0 THEN "BreaksBothCastlesMove"
         ELSE "BreaksLeftCastleMove"
    ELSE IF board.ValidCastles[turn][1] # 0 THEN "BreaksRightCastleMove"
    ELSE "NormalMove"

\* occupied & mask == 0 as C reads it, occupied & (mask == 0): nonzero when the
\* mask is empty and bit 0 of occupied is set.
CastlePathTest(occupied, mask) == mask = {} /\ 0 \in occupied

\* The castle moves of getKingMoves.
CastleMoves(board, turn) ==
    IF board.Castled[turn] = 0
    THEN (IF board.ValidCastles[turn][0] = 1
             /\ CastlePathTest(Occupied(board), LeftCastleBoards(turn))
          THEN <<CastleMove("LeftCastleMove")>> ELSE <<>>)
         \o
         (IF board.ValidCastles[turn][1] = 1
             /\ CastlePathTest(Occupied(board), RightCastleBoards(turn))
          THEN <<CastleMove("RightCastleMove")>> ELSE <<>>)
    ELSE <<>>

getKingMoves(board, turn) ==
    LET friendly == board.Colors[turn]
        \* Pieces[KING] & friendly == 0 as C reads it, Pieces[KING] & (friendly == 0)
        noKing == friendly = {} /\ 0 \in board.Pieces["KING"]
        bit == getLSB(board.Pieces["KING"] \cap friendly)
    IN  IF noKing THEN <<>>
        ELSE MovesTo(board, bit, KingMap(bit) \ friendly, "KING", KingMoveType(board, turn))
                 \o CastleMoves(board, turn)

\* Pawn moves whose target squares are targets and whose start is target - shift.
PawnMovesTo(board, targets, shift, type, capture) ==
    [k \in 1..Cardinality(targets) |->
        [Start |-> BitOrder(targets)[k] - shift, End |-> BitOrder(targets)[k],
         CapturedType |-> IF capture THEN getSquare(BitOrder(targets)[k], board) ELSE "EMPTY",
         MovedType |-> "PAWN", Type |-> type]]

getPawnMoves(board, turn) ==
    LET friendly == board.Colors[turn]
        enemy == board.Colors[1 - turn]
        pawns == board.Pieces["PAWN"] \cap friendly
        free == Squares \ (friendly \cup enemy)
        forwardShift == IF turn = WHITE THEN 8 ELSE -8
        leftShift == IF turn = WHITE THEN 7 ELSE -7
        rightShift == IF turn = WHITE THEN 9 ELSE -9
        oneMove == IF turn = WHITE THEN (ShiftUp(pawns, 8) \cap free) \ RANK_8
                   ELSE (ShiftDown(pawns, 8) \cap free) \ RANK_1
        twoMove == IF turn = WHITE THEN ShiftUp(oneMove \cap RANK_3, 8) \cap free
                   ELSE ShiftDown(oneMove \cap RANK_6, 8) \cap free
        leftMove == IF turn = WHITE THEN ((ShiftUp(pawns, 7) \ FILE_A) \cap enemy) \ RANK_8
                    ELSE ((ShiftDown(pawns, 7) \ FILE_H) \cap enemy) \ RANK_1
        rightMove == IF turn = WHITE THEN ((ShiftUp(pawns, 9) \ FILE_H) \cap enemy) \ RANK_8
                     ELSE ((ShiftDown(pawns, 9) \ FILE_A) \cap enemy) \ RANK_1
    IN  PawnMovesTo(board, oneMove, forwardShift, "NormalMove", FALSE)
            \o PawnMovesTo(board, twoMove, 2 * forwardShift, "PawnDoublePushMove", FALSE)
            \o PawnMovesTo(board, leftMove, leftShift, "NormalMove", TRUE)
            \o PawnMovesTo(board, rightMove, rightShift, "NormalMove", TRUE)

\* The Type of a move of the rook on square bit.
RookMoveType(board, turn, bit) ==
    IF board.ValidCastles[turn][0] # 0 /\ (bit = 0 \/ bit = 56) THEN "BreaksLeftCastleMove"
    ELSE IF board.ValidCastles[turn][1] # 0 /\ (bit = 7 \/ bit = 63) THEN "BreaksRightCastleMove"
    ELSE "NormalMove"

getRookMoves(board, turn) ==
    LET friendly == board.Colors[turn]
        one(bit) == MovesTo(board, bit, RookAttacks(bit, Occupied(board)) \ friendly,
                            "ROOK", RookMoveType(board, turn, bit))
    pieces == BitOrder(board.Pieces["ROOK"] \cap friendly)
    IN  Flatten([k \in 1..Len(pieces) |-> one(pieces[k])], 1)

getBishopMoves(board, turn) ==
    LET friendly == board.Colors[turn]
        one(bit) == MovesTo(board, bit, BishopAttacks(bit, Occupied(board)) \ friendly,
                            "BISHOP", "NormalMove")
    pieces == BitOrder(board.Pieces["BISHOP"] \cap friendly)
    IN  Flatten([k \in 1..Len(pieces) |-> one(pieces[k])], 1)

getQueenMoves(board, turn) ==
    LET friendly == board.Colors[turn]
        one(bit) ==
            MovesTo(board, bit, RookAttacks(bit, Occupied(board)) \ friendly,
                    "QUEEN", "NormalMove")
            \o MovesTo(board, bit, BishopAttacks(bit, Occupied(board)) \ friendly,
                       "QUEEN", "NormalMove")
    pieces == BitOrder(board.Pieces["QUEEN"] \cap friendly)
    IN  Flatten([k \in 1..Len(pieces) |-> one(pieces[k])], 1)

\* The candidate list getAllMoves hands to validateCheck.
Candidates(board, turn) ==
    getKingMoves(board, turn) \o getQueenMoves(board, turn) \o getRookMoves(board, turn)
        \o getKnightMoves(board, turn) \o getBishopMoves(board, turn)
        \o getPawnMoves(board, turn)

\* 1 when no enemy piece attacks the king of turn, 0 otherwise.
validateMove(board, turn) ==
    LET friendly == board.Colors[turn]
        enemy == board.Colors[1 - turn]
        all == friendly \cup enemy
        king == friendly \cap board.Pieces["KING"]
        kingSquare == getLSB(king)
        enemyPawns == enemy \cap board.Pieces["PAWN"]
    IN  IF ((board.Pieces["BISHOP"] \cup board.Pieces["QUEEN"]) \cap enemy
               \cap (BishopAttacks(kingSquare, all) \ friendly)) # {} THEN 0
        ELSE IF ((board.Pieces["ROOK"] \cup board.Pieces["QUEEN"]) \cap enemy
                    \cap RookAttacks(kingSquare, all)) # {} THEN 0
        ELSE IF (KnightMap(kingSquare) \cap (enemy \cap board.Pieces["KNIGHT"])) # {} THEN 0
        ELSE IF turn = WHITE /\ ((ShiftUp(king, 7) \ FILE_A) \cap enemyPawns) # {} THEN 0
        ELSE IF turn = WHITE /\ ((ShiftUp(king, 9) \ FILE_H) \cap enemyPawns) # {} THEN 0
        ELSE IF turn = BLACK /\ ((ShiftDown(king, 7) \ FILE_H) \cap enemyPawns) # {} THEN 0
        ELSE IF turn = BLACK /\ ((ShiftDown(king, 9) \ FILE_A) \cap enemyPawns) # {} THEN 0
        ELSE IF (KingMap(kingSquare) \cap (enemy \cap board.Pieces["KING"])) # {} THEN 0
        ELSE 1

\* The castling rights of turn after a move of the given Type.
RightsAfter(rights, type) ==
    CASE type = "BreaksBothCastlesMove" -> [side \in {0, 1} |-> 0]
      [] type = "BreaksLeftCastleMove" -> [rights EXCEPT ![0] = 0]
      [] type = "BreaksRightCastleMove" -> [rights EXCEPT ![1] = 0]
      [] OTHER -> rights

\* The castling rights of turn before a move of the given Type.
RightsBefore(rights, type) ==
    CASE type = "BreaksBothCastlesMove" -> [side \in {0, 1} |-> 1]
      [] type = "BreaksLeftCastleMove" -> [rights EXCEPT ![0] = 1]
      [] type = "BreaksRightCastleMove" -> [rights EXCEPT ![1] = 1]
      [] OTHER -> rights

\* ApplyMove for the moves that carry Start and End: the piece goes from Start
\* to End, a captured piece leaves the board, the forfeited rights are cleared.
ApplyMove(board, move, turn) ==
    [board EXCEPT
        !.Colors = [c \in {0, 1} |->
            IF c = turn THEN (board.Colors[c] \ {move.Start}) \cup {move.End}
            ELSE board.Colors[c] \ {move.End}],
        !.Pieces = [k \in PieceKinds |->
            LET left == IF k = move.CapturedType THEN board.Pieces[k] \ {move.End}
                        ELSE board.Pieces[k]
            IN  IF k = move.MovedType THEN (left \ {move.Start}) \cup {move.End} ELSE left],
        !.ValidCastles[turn] = RightsAfter(board.ValidCastles[turn], move.Type)]

\* RevertMove: the piece goes back from End to Start, the captured piece returns
\* to End, the forfeited rights are set again.
RevertMove(board, move, turn) ==
    [board EXCEPT
        !.Colors = [c \in {0, 1} |->
            IF c = turn THEN (board.Colors[c] \ {move.End}) \cup {move.Start}
            ELSE IF move.CapturedType # "EMPTY" THEN board.Colors[c] \cup {move.End}
            ELSE board.Colors[c]],
        !.Pieces = [k \in PieceKinds |->
            LET back == IF k = move.MovedType THEN (board.Pieces[k] \ {move.End}) \cup {move.Start}
                        ELSE board.Pieces[k]
            IN  IF k = move.CapturedType THEN back \cup {move.End} ELSE back],
        !.ValidCastles[turn] = RightsBefore(board.ValidCastles[turn], move.Type)]

(* ----------------------------- getAllMoves ---------------------------- *)

\* getAllMoves up to its call of validateCheck: the six generators fill moves.
Generate ==
    /\ pc = "generate"
    /\ moveList' = Candidates(curBoard, curTurn)
    /\ indexOut' = Len(moveList')
    /\ pc' = "validateCheck"
    /\ UNCHANGED <<curBoard, curTurn, fixedList, loopI, validOut, atEntry, callLog, tvars, pvars>>

\* validateCheck up to its loop: size = *index; *index = 0.
EnterValidateCheck ==
    /\ pc = "validateCheck"
    /\ fixedList' = <<>>
    /\ indexOut' = 0
    /\ loopI' = 0
    /\ atEntry' = [board |-> curBoard, moves |-> moveList]
    /\ pc' = "loop"
    /\ UNCHANGED <<curBoard, curTurn, moveList, validOut, callLog, tvars, pvars>>

\* ApplyMove(board, moves[i], turn)
ApplyStep ==
    /\ pc = "loop"
    /\ loopI < Len(moveList)
    /\ curBoard' = ApplyMove(curBoard, moveList[loopI + 1], curTurn)
    /\ callLog' = Append(callLog, <<"ApplyMove", loopI>>)
    /\ pc' = "applied"
    /\ UNCHANGED <<curTurn, moveList, indexOut, fixedList, loopI, validOut, atEntry, tvars, pvars>>

\* valid = validateMove(board, turn)
ValidateStep ==
    /\ pc = "applied"
    /\ validOut' = validateMove(curBoard, curTurn)
    /\ callLog' = Append(callLog, <<"validateMove", loopI>>)
    /\ pc' = "validated"
    /\ UNCHANGED <<curBoard, curTurn, moveList, indexOut, fixedList, loopI, atEntry, tvars, pvars>>

\* The revert left out for a move found invalid.
RevertStepValidOnly ==
    /\ pc = "validated"
    /\ curBoard' = IF validOut = 1 THEN RevertMove(curBoard, moveList[loopI + 1], curTurn) ELSE curBoard
    /\ callLog' = IF validOut = 1 THEN Append(callLog, <<"RevertMove", loopI>>) ELSE callLog
    /\ pc' = "reverted"
    /\ UNCHANGED <<curTurn, moveList, indexOut, fixedList, loopI, validOut, atEntry, tvars, pvars>>

\* RevertMove(board, moves[i], turn)
RevertStep ==
    /\ pc = "validated"
    /\ curBoard' = RevertMove(curBoard, moveList[loopI + 1], curTurn)
    /\ callLog' = Append(callLog, <<"RevertMove", loopI>>)
    /\ pc' = "reverted"
    /\ UNCHANGED <<curTurn, moveList, indexOut, fixedList, loopI, validOut, atEntry, tvars, pvars>>

\* The kept move written to the front of fixed.
KeptInFront(list, move) == <<move>> \o list

\* fixed[(*index)++] = moves[i]
Kept(list, move) == Append(list, move)

\* if (valid == 1) keep moves[i]; i++
KeepStep ==
    /\ pc = "reverted"
    /\ validOut = 1
    /\ fixedList' = Kept(fixedList, moveList[loopI + 1])
    /\ indexOut' = indexOut + 1
    /\ loopI' = loopI + 1
    /\ pc' = "loop"
    /\ UNCHANGED <<curBoard, curTurn, moveList, validOut, atEntry, callLog, tvars, pvars>>

\* else free(moves[i]); i++
DiscardStep ==
    /\ pc = "reverted"
    /\ validOut # 1
    /\ loopI' = loopI + 1
    /\ pc' = "loop"
    /\ UNCHANGED <<curBoard, curTurn, moveList, indexOut, fixedList, validOut, atEntry, callLog, tvars, pvars>>

\* free(moves); return fixed
ReturnStep ==
    /\ pc = "loop"
    /\ ~(loopI < Len(moveList))
    /\ moveList' = <<>>
    /\ pc' = "done"
    /\ UNCHANGED <<curBoard, curTurn, indexOut, fixedList, loopI, validOut, atEntry, callLog, tvars, pvars>>

\* The pieces a board may hold besides the kings: colour, kind, square.
Menu ==
    {<<WHITE, "ROOK", 0>>, <<WHITE, "ROOK", 7>>, <<WHITE, "ROOK", 56>>,
     <<WHITE, "KNIGHT", 1>>, <<WHITE, "PAWN", 12>>, <<WHITE, "QUEEN", 27>>,
     <<BLACK, "ROOK", 28>>, <<BLACK, "BISHOP", 31>>, <<BLACK, "KNIGHT", 21>>,
     <<BLACK, "PAWN", 52>>, <<BLACK, "ROOK", 63>>}

WhiteKingSquares == {4}
BlackKingSquares == {60, 46}

\* The board with the kings on wk and bk and the pieces of extra.
BoardOf(wk, bk, extra, rights, castled) ==
    [Colors |-> [c \in {0, 1} |->
                    {p[3] : p \in {q \in extra : q[1] = c}}
                        \cup (IF c = WHITE THEN {wk} ELSE {bk})],
     Pieces |-> [k \in PieceKinds |->
                    {p[3] : p \in {q \in extra : q[2] = k}}
                        \cup (IF k = "KING" THEN {wk, bk} ELSE {})],
     ValidCastles |-> rights,
     Castled |-> castled]

\* The castling rights a side may hold: its king and the rook of that side at home.
RightsOf(b, c) ==
    LET home == IF c = WHITE THEN 4 ELSE 60
        leftRook == IF c = WHITE THEN 0 ELSE 56
        rightRook == IF c = WHITE THEN 7 ELSE 63
        own(kind) == b.Colors[c] \cap b.Pieces[kind]
    IN  {r \in [{0, 1} -> {0, 1}] :
            /\ r[0] = 1 => (home \in own("KING") /\ leftRook \in own("ROOK"))
            /\ r[1] = 1 => (home \in own("KING") /\ rightRook \in own("ROOK"))}

\* The boards getAllMoves is called on: a side that has castled holds no right,
\* and the king of the side that has just moved is not attacked.
Boards ==
    LET placed == {BoardOf(wk, bk, extra, [c \in {0, 1} |-> [side \in {0, 1} |-> 0]],
                           [c \in {0, 1} |-> 0]) :
                       wk \in WhiteKingSquares, bk \in BlackKingSquares,
                       extra \in {e \in SUBSET Menu : Cardinality(e) <= MaxExtra}}
        none == [side \in {0, 1} |-> 0]
        flags(b) == {f \in RightsOf(b, WHITE) \X RightsOf(b, BLACK) \X [{0, 1} -> {0, 1}] :
                        /\ f[3][0] = 1 => f[1] = none
                        /\ f[3][1] = 1 => f[2] = none}
    IN  UNION {{[b EXCEPT !.ValidCastles = [c \in {0, 1} |-> IF c = WHITE THEN f[1] ELSE f[2]],
                          !.Castled = f[3]] : f \in flags(b)} :
               b \in placed}

MovesInit ==
    /\ curBoard \in Boards
    /\ curTurn \in {WHITE, BLACK}
    /\ validateMove(curBoard, 1 - curTurn) = 1
    /\ moveList = <<>>
    /\ indexOut = 0
    /\ fixedList = <<>>
    /\ loopI = 0
    /\ validOut = 0
    /\ pc = "generate"
    /\ atEntry = [board |-> curBoard, moves |-> <<>>]
    /\ callLog = <<>>

\* The tables are not touched while moves are generated.
IdleMoves ==
    /\ curBoard = BoardOf(4, 60, {}, [c \in {0, 1} |-> [side \in {0, 1} |-> 0]], [c \in {0, 1} |-> 0])
    /\ curTurn = WHITE
    /\ moveList = <<>>
    /\ indexOut = 0
    /\ fixedList = <<>>
    /\ loopI = 0
    /\ validOut = 0
    /\ pc = "idle"
    /\ atEntry = [board |-> curBoard, moves |-> <<>>]
    /\ callLog = <<>>

(* --------------------------- specifications --------------------------- *)

vars == <<tvars, pvars, mvars>>

Init == TableInit /\ PawnInit /\ IdleMoves

TableNext ==
    \/ \E mb \in TableSizes : initalizeTranspositionTable(mb)
    \/ \E n \in {1, GENERATION_CYCLE} : updateTranspositionTable(n)
    \/ clearTranspositionTable
    \/ \E h \in Hashes : getTranspositionEntry(h)
    \/ \E h \in Hashes, a \in Payloads : storeTranspositionEntry(h, a)

\* The table under every operation.
SpecTable == Init /\ [][TableNext]_vars

SizeNext == \E mb \in 0..MaxMegabytes : initalizeTranspositionTable(mb)

\* The sizing of the table.
SpecSize == Init /\ [][SizeNext]_vars

PawnNext ==
    \/ \E p \in PawnHashes : getPawnEntry(p)
    \/ \E p \in PawnHashes, passed \in PassedBoards, mg \in MgScores, eg \in EgScores :
           storePawnEntry(p, passed, mg, eg)

\* The pawn table under every operation.
SpecPawn == Init /\ [][PawnNext]_vars

MovesNext ==
    \/ Generate
    \/ EnterValidateCheck
    \/ ApplyStep
    \/ ValidateStep
    \/ RevertStep
    \/ KeepStep
    \/ DiscardStep
    \/ ReturnStep

GetAllMovesInit == TableInit /\ PawnInit /\ MovesInit

\* getAllMoves on every board of Boards, for either side to move.
SpecMoves == GetAllMovesInit /\ [][MovesNext]_vars

(* ------------------------------ claims -------------------------------- *)

\* The bucket of the table that hash addresses.
BucketOf(table, hash) == table[BucketIndex(hash, keySize)]

\* C4: a probe that directly follows a store of the same hash finds an entry,
\* and the entry holds the stored value, depth, type and bestMove, the top 16
\* bits of the hash as hash16 and the current generation as age.
C4_StoreThenProbe ==
    [][(lastOp.op = "store" /\ lastOp'.op = "probe" /\ lastOp'.hash = lastOp.hash)
        => /\ lastOp'.slot # NULL
           /\ LET e == BucketOf(buckets', lastOp.hash)[lastOp'.slot]
              IN  /\ e.value = lastOp.args.value
                  /\ e.depth = lastOp.args.depth
                  /\ e.type = lastOp.args.type
                  /\ e.bestMove = lastOp.args.bestMove
                  /\ e.hash16 = lastOp.hash.hi
                  /\ e.age = generation']_vars

\* A probe right after a store of the same hash into a full bucket, found.
C4_Witness ==
    /\ lastOp.op = "probe"
    /\ lastOp.afterStore
    /\ lastOp.slot # NULL
    /\ \A s \in Slots : BucketOf(buckets, lastOp.hash)[s].type # 0
    /\ BucketOf(buckets, lastOp.hash)[lastOp.slot].bestMove = 77

\* The step is a store into a bucket with no unused entry and no entry of the tag.
EvictingStore ==
    /\ lastOp'.op = "store"
    /\ \A s \in Slots : /\ BucketOf(buckets, lastOp'.hash)[s].type # 0
                        /\ BucketOf(buckets, lastOp'.hash)[s].hash16 # lastOp'.hash.hi

\* The step overwrites exactly slot v of the addressed bucket, and v has the
\* least depth of the slots in from when from is not empty, of all slots otherwise.
Evicts(v, from) ==
    LET old == BucketOf(buckets, lastOp'.hash)
        new == BucketOf(buckets', lastOp'.hash)
    IN  /\ DOMAIN new = Slots
        /\ new[v].hash16 = lastOp'.hash.hi
        /\ \A s \in Slots \ {v} : new[s] = old[s]
        /\ IF from # {}
           THEN v \in from /\ \A s \in from : old[v].depth <= old[s].depth
           ELSE \A s \in Slots : old[v].depth <= old[s].depth

\* C5 as amended: a store into a bucket with no unused entry and no entry of the
\* tag overwrites exactly one entry; if some entry's age field differs from the
\* table's generation, the overwritten entry is one of least depth among those,
\* and otherwise one of least depth among all entries of the bucket.
C5_EvictionByAgeField ==
    [][EvictingStore
        => \E v \in Slots :
              Evicts(v, {s \in Slots : BucketOf(buckets, lastOp'.hash)[s].age # generation})]_vars

\* C5 as claimed: the entries preferred for eviction are those not stored or
\* probed since the most recent updateTranspositionTable.
C5_EvictionByLastTouch ==
    [][EvictingStore
        => \E v \in Slots :
              Evicts(v, {s \in Slots : ~BucketOf(touched, lastOp'.hash)[s]})]_vars

\* A store replaced an old entry while an entry of the current generation stayed.
C5_Witness ==
    /\ lastOp.op = "store"
    /\ lastOp.how = "old"
    /\ \E s \in Slots : /\ BucketOf(buckets, lastOp.hash)[s].hash16 # lastOp.hash.hi
                        /\ BucketOf(buckets, lastOp.hash)[s].age = generation
                        /\ BucketOf(buckets, lastOp.hash)[s].depth = 0

\* C8: no bucket holds two used entries with the same hash16.
C8_NoDuplicateTag ==
    \A b \in BucketIds : \A i, j \in Slots :
        (i # j /\ buckets[b][i].type # 0 /\ buckets[b][j].type # 0)
            => buckets[b][i].hash16 # buckets[b][j].hash16

\* A store found its tag resident in the last slot of a full bucket and overwrote it.
C8_Witness ==
    /\ lastOp.op = "store"
    /\ lastOp.how = "same"
    /\ \A s \in Slots : BucketOf(buckets, lastOp.hash)[s].type # 0
    /\ BucketOf(buckets, lastOp.hash)[BUCKET_SIZE].hash16 = lastOp.hash.hi

\* C10: an entry that getTranspositionEntry returns has type # 0.
C10_ProbeReturnsUsedEntry ==
    (lastOp.op = "probe" /\ lastOp.slot # NULL)
        => BucketOf(buckets, lastOp.hash)[lastOp.slot].type # 0

\* C7: keySize is at least 15; for a budget of at least one megabyte the bucket
\* count 2^keySize fits the budget and twice that does not; generation and used
\* are 0 and every entry is unused.
C7_LargestPowerOfTwo ==
    lastOp.op = "init"
        => /\ keySize >= 15
           /\ lastOp.megabytes >= 1
                 => /\ numBuckets * 32 <= lastOp.megabytes * 1048576
                    /\ 2 * numBuckets * 32 > lastOp.megabytes * 1048576
           /\ generation = 0
           /\ used = 0
           /\ \A b \in BucketIds, s \in Slots : buckets[b][s].type = 0

\* A budget that is no power of two, rounded down to 2^18 buckets of 32 bytes.
C7_Witness == lastOp.op = "init" /\ lastOp.megabytes = 13 /\ keySize = 18

\* C6: a probe that directly follows a store of the same hash finds the slot with
\* the stored phash, passed, mg and eg; a probe of a hash other than the one
\* resident in its slot finds nothing; a store changes no other slot.
C6_PawnStoreProbe ==
    [][/\ (pLast.op = "store" /\ pLast'.op = "probe" /\ pLast'.phash = pLast.phash)
           => /\ pLast'.found
              /\ pentries'[PawnIndex(pLast.phash)] =
                     [phash |-> pLast.phash, passed |-> pLast.passed,
                      mg |-> pLast.mg, eg |-> pLast.eg]
       /\ (pLast'.op = "probe" /\ pentries[PawnIndex(pLast'.phash)].phash # pLast'.phash)
           => ~pLast'.found
       /\ pLast'.op = "store"
           => \A s \in PawnSlots \ {PawnIndex(pLast'.phash)} : pentries'[s] = pentries[s]]_vars

\* A probe of a hash whose top 16 bits are those of a different, stored hash.
C6_Witness ==
    /\ pLast.op = "probe"
    /\ ~pLast.found
    /\ pentries[PawnIndex(pLast.phash)].mg # 0
    /\ pentries[PawnIndex(pLast.phash)].phash # pLast.phash
    /\ pentries[PawnIndex(pLast.phash)].phash.hi = pLast.phash.hi

(* ------------------------- move generator claims ---------------------- *)

\* The Types of the moves of a list.
TypesOf(list) == {list[k].Type : k \in 1..Len(list)}

\* C1: the candidate list holds a LeftCastleMove (a RightCastleMove) exactly
\* when the side to move has not castled, holds the right of that side and no
\* piece stands between its king and the rook of that side.
C1_CastleEmittedWhenAllowed ==
    pc = "validateCheck" =>
        /\ "LeftCastleMove" \in TypesOf(moveList)
              <=> /\ curBoard.Castled[curTurn] = 0
                  /\ curBoard.ValidCastles[curTurn][0] = 1
                  /\ Occupied(curBoard) \cap LeftCastleBoards(curTurn) = {}
        /\ "RightCastleMove" \in TypesOf(moveList)
              <=> /\ curBoard.Castled[curTurn] = 0
                  /\ curBoard.ValidCastles[curTurn][1] = 1
                  /\ Occupied(curBoard) \cap RightCastleBoards(curTurn) = {}

\* The Type the rights held name for a king move.
KingTypeByRights(rights) ==
    CASE rights[0] = 1 /\ rights[1] = 1 -> "BreaksBothCastlesMove"
      [] rights[0] = 1 /\ rights[1] = 0 -> "BreaksLeftCastleMove"
      [] rights[0] = 0 /\ rights[1] = 1 -> "BreaksRightCastleMove"
      [] OTHER -> "NormalMove"

\* The Type the rights held name for a move of a rook of turn from start.
RookTypeByOwnHome(rights, turn, start) ==
    CASE start = (IF turn = WHITE THEN 0 ELSE 56) /\ rights[0] = 1 -> "BreaksLeftCastleMove"
      [] start = (IF turn = WHITE THEN 7 ELSE 63) /\ rights[1] = 1 -> "BreaksRightCastleMove"
      [] OTHER -> "NormalMove"

\* C9: every king move carries the Type that names the rights held, and every
\* rook move the Type of the right it forfeits: the left (right) one when it
\* starts on the mover's own left (right) rook home square and that right is
\* held, NormalMove otherwise.
C9_TypeNamesForfeitedRights ==
    pc = "validateCheck" =>
        \A k \in 1..Len(moveList) :
            LET m == moveList[k]
                rights == curBoard.ValidCastles[curTurn]
            IN  /\ m.MovedType = "KING" => m.Type = KingTypeByRights(rights)
                /\ m.MovedType = "ROOK" => m.Type = RookTypeByOwnHome(rights, curTurn, m.Start)

\* The king moves alone carry the Type the rights held name.
C9_KingTypeNamesRights ==
    pc = "validateCheck" =>
        \A k \in 1..Len(moveList) :
            moveList[k].MovedType = "KING"
                => moveList[k].Type = KingTypeByRights(curBoard.ValidCastles[curTurn])

\* validateMove after the move is applied to the board validateCheck was entered with.
ValidAfter(m) == validateMove(ApplyMove(atEntry.board, m, curTurn), curTurn) = 1

\* C2: the list validateCheck returns is the candidates that leave the mover's
\* king unattacked, each once and in candidate order, and *index is its length,
\* at most the number of candidates.
C2_ReturnsValidSubsequence ==
    pc = "done" =>
        /\ fixedList = SelectSeq(atEntry.moves, ValidAfter)
        /\ indexOut = Len(fixedList)
        /\ indexOut <= Len(atEntry.moves)

\* A call that returned after dropping a candidate that stood between two kept ones.
C2_Witness ==
    /\ pc = "done"
    /\ \E j \in 2..(Len(atEntry.moves) - 1) :
           /\ ~ValidAfter(atEntry.moves[j])
           /\ ValidAfter(atEntry.moves[j - 1])
           /\ ValidAfter(atEntry.moves[j + 1])
    /\ Len(fixedList) >= 2

\* The call validateCheck makes as its k-th on the board.
CallNumber(k) ==
    <<CASE (k - 1) % 3 = 0 -> "ApplyMove"
        [] (k - 1) % 3 = 1 -> "validateMove"
        [] OTHER -> "RevertMove",
      (k - 1) \div 3>>

\* C3: validateCheck calls ApplyMove, validateMove and RevertMove on candidate
\* 0, then on candidate 1, and so on, each candidate once; between an ApplyMove
\* and its RevertMove the board is the entry board with that one move applied,
\* and everywhere else, the return included, it is the entry board.
C3_MatchedApplyRevert ==
    pc \in {"loop", "applied", "validated", "reverted", "done"} =>
        /\ \A k \in 1..Len(callLog) : callLog[k] = CallNumber(k)
        /\ pc \in {"loop", "reverted", "done"} =>
               /\ curBoard = atEntry.board
               /\ Len(callLog) % 3 = 0
        /\ pc \in {"applied", "validated"} =>
               curBoard = ApplyMove(atEntry.board, atEntry.moves[loopI + 1], curTurn)
        /\ pc = "done" => Len(callLog) = 3 * Len(atEntry.moves)

\* A call that returned after a capture and a move that forfeits a right, with
\* candidates kept and candidates discarded.
C3_Witness ==
    /\ pc = "done"
    /\ curBoard = atEntry.board
    /\ 0 < indexOut /\ indexOut < Len(atEntry.moves)
    /\ \E k \in 1..Len(atEntry.moves) :
           /\ atEntry.moves[k].CapturedType # "EMPTY"
           /\ atEntry.moves[k].Type \in {"BreaksLeftCastleMove", "BreaksRightCastleMove"}
    /\ Len(callLog) = 3 * Len(atEntry.moves)

====
